---- MODULE Spec2Model ----
(***************************************************************************)
(* The teacher portal of the exit-ticket generator (src/app.py): the       *)
(* authoring workflow kept in Streamlit's session state, the generator     *)
(* adapter generate_mcqs, and the publish step that hands the draft to the *)
(* repository.  Every action is one script run started by one widget       *)
(* interaction: the page router picks the page from the session state, the *)
(* handler of the clicked widget runs, and the run ends (or reruns).       *)
(* The analytics page of a published ticket (view_ticket_analytics and      *)
(* calculate_flag_statistics) is a computation on what the repository      *)
(* holds for the ticket; it has its own specification, AnalyticsSpec.      *)
(***************************************************************************)
EXTENDS Integers, Sequences, FiniteSets, TLC

(***************************************************************************)
(* Bounds of the model.                                                    *)
(***************************************************************************)
\* longest question list the generator returns
MaxGen == 4
\* user interactions (script runs) in one session
MaxOps == 3
\* student responses stored for the ticket the analytics page shows
MaxResponses == 2
\* longest question snapshot of that ticket
MaxSnapshot == 3

(***************************************************************************)
(* Program constants.                                                      *)
(***************************************************************************)
\* st.slider(min_value=3, max_value=10)
MinQuestions == 3
MaxQuestions == 10
\* regenerate_teacher_question asks for one question
RegenerateCount == 1
\* st.session_state.get("teacher_num_questions", 5)
FallbackNumQuestions == 5

(***************************************************************************)
(* Python's None and optional session keys: an optional value is a         *)
(* sequence of length at most one, so that None differs from an empty      *)
(* list.                                                                   *)
(***************************************************************************)
None == << >>
Some(v) == << v >>
Get(o, default) == IF o = None THEN default ELSE o[1]

(***************************************************************************)
(* Questions.  The generator's questions are well formed: the six fields   *)
(* of the prompt's output format, four options, the correct answer one of  *)
(* the option keys.                                                        *)
(***************************************************************************)
OptionKeys == <<"A", "B", "C", "D">>

RawQuestion(b, k) ==
    [question       |-> "g" \o ToString(b) \o "q" \o ToString(k),
     options        |-> [o \in {"A", "B", "C", "D"} |-> "opt" \o o],
     correct_answer |-> OptionKeys[((b + k) % 4) + 1],
     explanation    |-> "because",
     topic          |-> "topic",
     subtopic       |-> "subtopic"]

Batch(b, len) == [k \in 1..len |-> RawQuestion(b, k)]

\* what model.generate_content answers, after the JSON extraction:
\* the call raises, the text does not parse, or a parsed dict
ApiError == [kind |-> "api_error"]
Unparsable == [kind |-> "unparsable"]
ParsedDict(d) == [kind |-> "json", mcqs |-> d]
\* a parsed dict, and save_question fails for its question k: the call
\* raises (0: every call returns)
SaveFails(d, k) == [kind |-> "json", mcqs |-> d, failing_save |-> k]
FailingSave(resp) == IF "failing_save" \in DOMAIN resp THEN resp.failing_save ELSE 0
\* a parsed dict without a "questions" key
NoQuestionsDict == [error |-> "quota"]

\* the batches the generator answers with, and their lengths: a list of one
\* question stands for every list shorter than MinQuestions
Batches == {1, 2}
Lengths == {0, 1} \cup MinQuestions..MaxGen

Responses ==
    {ApiError, Unparsable, ParsedDict(NoQuestionsDict)}
    \cup {ParsedDict([questions |-> Batch(b, len)]) : b \in Batches, len \in Lengths}
    \cup {SaveFails([questions |-> Batch(1, MinQuestions)], 2)}

(***************************************************************************)
(* The teacher's form inputs.                                              *)
(***************************************************************************)
Forms ==
    {[subject |-> "Networking", lecture_topics |-> "OSI model, TCP handshake",
      ai_instructions |-> ""],
     [subject |-> "Cybersecurity", lecture_topics |-> "Firewalls",
      ai_instructions |-> "Emphasize conceptual understanding of the topics."],
     [subject |-> "Networking", lecture_topics |-> "  ", ai_instructions |-> ""]}

\* variant of Strip: nothing is stripped
StripNothing(s) == s

\* str.strip() of the topics the forms use
Strip(s) == IF s = "  " THEN "" ELSE s

\* the counts the teacher picks on the slider: every count the generator can
\* satisfy and one it cannot
RequestedCounts ==
    MinQuestions..(IF MaxGen + 1 < MaxQuestions THEN MaxGen + 1 ELSE MaxQuestions)

\* what the teacher types into a text widget of the edit form
EditedText == "edited"

VARIABLES
    GOOGLE_API_KEY,              \* TRUE iff the API key is configured
    teacher_mcqs,                \* session state: None or Some(list)
    teacher_all_mcqs,            \* session state: None or Some(list), the draft
    teacher_ready_for_review,    \* session state flag
    teacher_subject,             \* session state, None while the key is missing
    teacher_lecture_topics,
    teacher_ai_instructions,
    teacher_num_questions,       \* session key that no code path sets
    teacher_edit_mode,           \* the indices i with teacher_edit_mode_i = True
    published_ticket,            \* session state: the last created ticket
    tickets,                     \* repository: the exit tickets, in creation order
    run_log,                     \* the last run: its calls of the generator
                                 \* and the repository, and its notices
    requested,                   \* history: num_questions of the request that
                                 \* created the current draft
    nops,                        \* user interactions so far
    ticket_data,                 \* analytics page: get_exit_ticket's answer
    analytics,                   \* analytics page: get_ticket_analytics' answer
    flag_stats,                  \* analytics page: the flag statistics shown
    response_views,              \* analytics page: the responses rendered
    view_raised,                 \* analytics page: the exception that ended
                                 \* the run, if one did
    response_text                \* the text the external model answers with,
                                 \* where the session fixes it

vars == <<GOOGLE_API_KEY, teacher_mcqs, teacher_all_mcqs, teacher_ready_for_review,
          teacher_subject, teacher_lecture_topics, teacher_ai_instructions,
          teacher_num_questions, teacher_edit_mode, published_ticket, tickets,
          run_log, requested, nops>>

viewvars == <<ticket_data, analytics, flag_stats, response_views, view_raised>>

genvars == <<response_text>>


(***************************************************************************)
(* The last run's log: the generator calls it made and the notices it      *)
(* showed (st.error, st.success, st.text).                                 *)
(***************************************************************************)
GenCall(lecture_topics, ai_instructions, num_questions, subject) ==
    [call |-> "generate_content", lecture_topics |-> lecture_topics,
     ai_instructions |-> ai_instructions, num_questions |-> num_questions,
     subject |-> subject]
FailedSaveCall(question, source) ==
    [call |-> "save_question", question |-> question, source |-> source,
     failed |-> TRUE]
SaveCall(question, source) ==
    [call |-> "save_question", question |-> question, source |-> source]
CreateCall == [call |-> "create_exit_ticket"]
Error(text) == [notice |-> "error", text |-> text]
Success(text) == [notice |-> "success", text |-> text]
RawText == [notice |-> "text", text |-> "Raw response:"]

IsCall(e, name) == "call" \in DOMAIN e /\ e.call = name
Shown(e) == \E k \in 1..Len(run_log) : run_log[k] = e
ShownIn(log, e) == \E k \in 1..Len(log) : log[k] = e
CallsIn(log, name) == {k \in 1..Len(log) : IsCall(log[k], name)}
HasError(log) ==
    \E k \in 1..Len(log) : "notice" \in DOMAIN log[k] /\ log[k].notice = "error"

(***************************************************************************)
(* generate_mcqs: the value it returns and what the run logs (the call,    *)
(* the save_question writes, the notices), for the answer resp of the      *)
(* external model.                                                         *)
(***************************************************************************)
\* variant of WithSubject: the subject is not added
WithSubjectDropped(q, subject) == q

\* `q["subject"] = subject`
WithSubject(q, subject) == [subject |-> subject] @@ q

GenerateMcqs(lecture_topics, ai_instructions, num_questions, subject, resp) ==
    IF ~GOOGLE_API_KEY
    THEN [ret |-> None, log |-> <<Error("Google API key not found.")>>]
    ELSE LET call == GenCall(lecture_topics, ai_instructions, num_questions, subject)
         IN CASE resp.kind = "api_error" ->
                   [ret |-> None, log |-> <<call, Error("Error generating MCQs")>>]
              [] resp.kind = "unparsable" ->
                   [ret |-> None,
                    log |-> <<call, Error("Error parsing AI response"), RawText>>]
              [] resp.kind = "json" ->
                   IF "questions" \in DOMAIN resp.mcqs
                   THEN LET qs == [k \in 1..Len(resp.mcqs.questions) |->
                                     WithSubject(resp.mcqs.questions[k], subject)]
                            failing == FailingSave(resp)
                            saves == [k \in 1..Len(qs) |->
                                         IF k = failing
                                         THEN FailedSaveCall(qs[k], "ai")
                                         ELSE SaveCall(qs[k], "ai")]
                        IN IF failing \in 1..Len(qs)
                           THEN [ret |-> None,
                                 log |-> <<call>> \o SubSeq(saves, 1, failing)
                                         \o <<Error("Error generating MCQs")>>]
                           ELSE [ret |-> Some([resp.mcqs EXCEPT !.questions = qs]),
                                 log |-> <<call>> \o saves]
                   ELSE [ret |-> Some(resp.mcqs), log |-> <<call>>]

\* `mcqs and 'questions' in mcqs`
HasQuestions(ret) ==
    /\ ret # None
    /\ DOMAIN ret[1] # {}
    /\ "questions" \in DOMAIN ret[1]

\* variants of TooFew: the check left out, and the check off by one
TooFewNever(questions, num_questions) == FALSE
TooFewOffByOne(questions, num_questions) == Len(questions) < num_questions - 1

\* `len(mcqs['questions']) < num_questions`
TooFew(questions, num_questions) == Len(questions) < num_questions

\* variant of FirstQuestion: the last question instead of the first
LastQuestion(questions) == questions[Len(questions)]

\* `mcqs['questions'][0]`
FirstQuestion(questions) == questions[1]

(***************************************************************************)
(* teacher_dashboard: the page the router shows for the session state.     *)
(***************************************************************************)
\* variant of Route: the ready-for-review flag is not looked at
RouteIgnoresReady == IF teacher_mcqs = None THEN "input" ELSE "review"

Route ==
    IF teacher_mcqs = None THEN "input"
    ELSE IF ~teacher_ready_for_review THEN "review"
    ELSE "input"

\* `not st.session_state.teacher_all_mcqs`: None or an empty list
NoQuestions == teacher_all_mcqs = None \/ Len(teacher_all_mcqs[1]) = 0

\* show_teacher_questions_page renders its rows and buttons
ReviewRendered == Route = "review" /\ ~NoQuestions

\* variant of Draft: the first MinQuestions questions of the list
DraftTruncated ==
    SubSeq(teacher_all_mcqs[1], 1,
           IF Len(teacher_all_mcqs[1]) < MinQuestions THEN Len(teacher_all_mcqs[1])
           ELSE MinQuestions)

Draft == teacher_all_mcqs[1]
Rows == IF NoQuestions THEN {} ELSE 0..(Len(Draft) - 1)

\* variant of ListSet: the row after i is written too
ListSetSpill(list, i, v) ==
    [k \in 1..Len(list) |-> IF k \in {i + 1, i + 2} THEN v ELSE list[k]]

\* list[i] = v.  The submit and Generate New Set handlers store one list
\* object under both teacher_mcqs and teacher_all_mcqs, so an assignment to
\* teacher_all_mcqs[i] shows under teacher_mcqs too.
ListSet(list, i, v) == [list EXCEPT ![i + 1] = v]

\* the analytics page has not been opened
AnalyticsClosed ==
    /\ ticket_data = None
    /\ analytics = [total_responses |-> 0, responses |-> << >>]
    /\ flag_stats = None
    /\ response_views = << >>
    /\ view_raised = None

Init ==
    /\ GOOGLE_API_KEY \in BOOLEAN
    /\ teacher_mcqs = None
    /\ teacher_all_mcqs = None
    /\ teacher_ready_for_review = FALSE
    /\ teacher_subject = None
    /\ teacher_lecture_topics = None
    /\ teacher_ai_instructions = None
    /\ teacher_num_questions = None
    /\ teacher_edit_mode = {}
    /\ published_ticket = None
    /\ tickets = << >>
    /\ run_log = << >>
    /\ requested = None
    /\ nops = 0
    /\ AnalyticsClosed
    /\ response_text = None

\* one interaction with the authoring pages; the analytics page is not open
Interaction ==
    nops < MaxOps /\ nops' = nops + 1 /\ UNCHANGED <<viewvars, genvars>>

(***************************************************************************)
(* show_teacher_input_page: the form is submitted.                         *)
(***************************************************************************)
SubmitForm(form, num_questions, resp) ==
    /\ Interaction
    /\ Route = "input"
    /\ UNCHANGED <<GOOGLE_API_KEY, teacher_num_questions, teacher_edit_mode,
                   published_ticket, tickets>>
    /\ IF Strip(form.lecture_topics) = ""
       THEN /\ run_log' = <<Error("Please enter lecture topics to generate MCQs.")>>
            /\ UNCHANGED <<teacher_mcqs, teacher_all_mcqs, teacher_ready_for_review,
                           teacher_subject, teacher_lecture_topics,
                           teacher_ai_instructions, requested>>
       ELSE LET g == GenerateMcqs(form.lecture_topics, form.ai_instructions,
                                  num_questions, form.subject, resp)
            IN IF HasQuestions(g.ret)
                  THEN IF TooFew(g.ret[1].questions, num_questions)
                       THEN /\ run_log' = g.log \o
                                 <<Error("Only n questions were generated.")>>
                            /\ UNCHANGED <<teacher_mcqs, teacher_all_mcqs,
                                           teacher_ready_for_review, teacher_subject,
                                           teacher_lecture_topics,
                                           teacher_ai_instructions, requested>>
                       ELSE /\ teacher_subject' = Some(form.subject)
                            /\ teacher_lecture_topics' = Some(form.lecture_topics)
                            /\ teacher_ai_instructions' = Some(form.ai_instructions)
                            /\ teacher_all_mcqs' = Some(g.ret[1].questions)
                            /\ teacher_mcqs' = Some(g.ret[1].questions)
                            /\ teacher_ready_for_review' = FALSE
                            /\ requested' = Some(num_questions)
                            /\ run_log' = g.log
                  ELSE /\ run_log' = g.log \o
                            <<Error("Failed to generate MCQs. Please try again.")>>
                       /\ UNCHANGED <<teacher_mcqs, teacher_all_mcqs,
                                      teacher_ready_for_review, teacher_subject,
                                      teacher_lecture_topics, teacher_ai_instructions,
                                      requested>>

(***************************************************************************)
(* regenerate_teacher_question, reached from the Regenerate button of a    *)
(* row in viewing mode.                                                    *)
(***************************************************************************)
RegenerateTeacherQuestion(question_index, subject, topics, instructions, resp) ==
    LET g == GenerateMcqs(topics, instructions, RegenerateCount, subject, resp)
    IN IF HasQuestions(g.ret) /\ Len(g.ret[1].questions) > 0
          THEN /\ teacher_all_mcqs' =
                     Some(ListSet(Draft, question_index, FirstQuestion(g.ret[1].questions)))
               /\ teacher_mcqs' = teacher_all_mcqs'
               /\ run_log' = g.log \o <<Success("Question regenerated successfully!")>>
          ELSE /\ run_log' = g.log \o
                     <<Error("Failed to regenerate question. Please try again.")>>
               /\ UNCHANGED <<teacher_mcqs, teacher_all_mcqs>>

ClickRegenerate(i, resp) ==
    /\ Interaction
    /\ ReviewRendered
    /\ i \in Rows
    /\ i \notin teacher_edit_mode
    /\ RegenerateTeacherQuestion(i, Get(teacher_subject, ""),
                                 Get(teacher_lecture_topics, ""),
                                 Get(teacher_ai_instructions, ""), resp)
    /\ UNCHANGED <<GOOGLE_API_KEY, teacher_ready_for_review, teacher_subject,
                   teacher_lecture_topics, teacher_ai_instructions,
                   teacher_num_questions, teacher_edit_mode, published_ticket,
                   tickets, requested>>

(***************************************************************************)
(* show_teacher_questions_page: the Edit, Save and Cancel buttons of row i.*)
(***************************************************************************)
ClickEdit(i) ==
    /\ Interaction
    /\ ReviewRendered
    /\ i \in Rows
    /\ i \notin teacher_edit_mode
    /\ teacher_edit_mode' = teacher_edit_mode \cup {i}
    /\ run_log' = << >>
    /\ UNCHANGED <<GOOGLE_API_KEY, teacher_mcqs, teacher_all_mcqs,
                   teacher_ready_for_review, teacher_subject, teacher_lecture_topics,
                   teacher_ai_instructions, teacher_num_questions, published_ticket,
                   tickets, requested>>

\* variant of EditForms: the select box also offers a key that is no option
EditFormsAnyKey(question_data) ==
    {[question       |-> question_data.question,
      options        |-> question_data.options,
      correct_answer |-> c,
      explanation    |-> question_data.explanation,
      topic          |-> question_data.topic,
      subtopic       |-> question_data.subtopic] :
        c \in DOMAIN question_data.options \cup {"E"}}

\* what the widgets of the edit form hold when Save is pressed: each text
\* widget starts from the question's value, and the teacher retypes all
\* of them or none; the select box offers the option keys
EditForms(question_data) ==
    {[question       |-> IF typed THEN EditedText ELSE question_data.question,
      options        |-> [o \in DOMAIN question_data.options |->
                             IF typed THEN EditedText ELSE question_data.options[o]],
      correct_answer |-> c,
      explanation    |-> IF typed THEN EditedText ELSE question_data.explanation,
      topic          |-> IF typed THEN EditedText ELSE question_data.topic,
      subtopic       |-> IF typed THEN EditedText ELSE question_data.subtopic] :
        typed \in BOOLEAN, c \in DOMAIN question_data.options}

SaveQuestion(i, edited) ==
    /\ teacher_all_mcqs' = Some(ListSet(Draft, i,
           [question       |-> edited.question,
            options        |-> edited.options,
            correct_answer |-> edited.correct_answer,
            explanation    |-> edited.explanation,
            topic          |-> edited.topic,
            subtopic       |-> edited.subtopic]))
    /\ teacher_mcqs' = teacher_all_mcqs'
    /\ teacher_edit_mode' = teacher_edit_mode \ {i}
    /\ run_log' = <<Success("Question updated.")>>

ClickSave(i, edited) ==
    /\ Interaction
    /\ ReviewRendered
    /\ i \in Rows
    /\ i \in teacher_edit_mode
    /\ edited \in EditForms(Draft[i + 1])
    /\ SaveQuestion(i, edited)
    /\ UNCHANGED <<GOOGLE_API_KEY, teacher_ready_for_review, teacher_subject,
                   teacher_lecture_topics, teacher_ai_instructions,
                   teacher_num_questions, published_ticket, tickets,
                   requested>>

\* variant of ClickCancel: the values of the widgets are written to the draft
ClickCancelCommits(i) ==
    /\ Interaction
    /\ ReviewRendered
    /\ i \in Rows
    /\ i \in teacher_edit_mode
    /\ \E edited \in EditForms(Draft[i + 1]) :
           /\ teacher_all_mcqs' = Some(ListSet(Draft, i, edited))
           /\ teacher_mcqs' = teacher_all_mcqs'
    /\ teacher_edit_mode' = teacher_edit_mode \ {i}
    /\ run_log' = << >>
    /\ UNCHANGED <<GOOGLE_API_KEY, teacher_ready_for_review, teacher_subject,
                   teacher_lecture_topics, teacher_ai_instructions,
                   teacher_num_questions, published_ticket, tickets, requested>>

ClickCancel(i) ==
    /\ Interaction
    /\ ReviewRendered
    /\ i \in Rows
    /\ i \in teacher_edit_mode
    /\ teacher_edit_mode' = teacher_edit_mode \ {i}
    /\ run_log' = << >>
    /\ UNCHANGED <<GOOGLE_API_KEY, teacher_mcqs, teacher_all_mcqs,
                   teacher_ready_for_review, teacher_subject, teacher_lecture_topics,
                   teacher_ai_instructions, teacher_num_questions, published_ticket,
                   tickets, requested>>

(***************************************************************************)
(* show_teacher_questions_page: the Generate New Set button.               *)
(***************************************************************************)
GenerateNewSet(resp) ==
    LET g == GenerateMcqs(Get(teacher_lecture_topics, ""),
                          Get(teacher_ai_instructions, ""),
                          Get(teacher_num_questions, FallbackNumQuestions),
                          Get(teacher_subject, ""), resp)
    IN IF HasQuestions(g.ret)
          THEN /\ teacher_mcqs' = Some(g.ret[1].questions)
               /\ teacher_all_mcqs' = Some(g.ret[1].questions)
               /\ teacher_ready_for_review' = TRUE
               /\ run_log' = g.log \o <<Success("New questions generated.")>>
          ELSE /\ run_log' = g.log \o
                     <<Error("Failed to generate a new set. Please try again.")>>
               /\ UNCHANGED <<teacher_mcqs, teacher_all_mcqs,
                              teacher_ready_for_review>>

ClickGenerateNewSet(resp) ==
    /\ Interaction
    /\ ReviewRendered
    /\ GenerateNewSet(resp)
    /\ UNCHANGED <<GOOGLE_API_KEY, teacher_subject, teacher_lecture_topics,
                   teacher_ai_instructions, teacher_num_questions, teacher_edit_mode,
                   published_ticket, tickets, requested>>

(***************************************************************************)
(* publish_exit_ticket.  create_exit_ticket belongs to the repository      *)
(* adapter: it answers with the created ticket, with None, or it raises.   *)
(***************************************************************************)
TeacherName == "Professor"

CreateOutcomes == {"created", "none", "raises"}

CreateExitTicket(questions, teacher_name, subject, lecture_topics) ==
    [ticket_id       |-> Len(tickets) + 1,
     teacher_name    |-> teacher_name,
     subject         |-> subject,
     lecture_topics  |-> lecture_topics,
     questions       |-> questions,
     total_questions |-> Len(questions),
     status          |-> "active"]

\* variants of PublishedSession: the draft list is not reset, and the reset
\* is done whether or not a ticket came back
PublishedSessionKeepsDraft(ticket) ==
    IF ticket # None
    THEN [published_ticket |-> ticket, teacher_mcqs |-> None,
          teacher_all_mcqs |-> teacher_all_mcqs, teacher_ready_for_review |-> FALSE]
    ELSE [published_ticket |-> published_ticket, teacher_mcqs |-> teacher_mcqs,
          teacher_all_mcqs |-> teacher_all_mcqs,
          teacher_ready_for_review |-> teacher_ready_for_review]
PublishedSessionAlwaysResets(ticket) ==
    [published_ticket |-> IF ticket # None THEN ticket ELSE published_ticket,
     teacher_mcqs |-> None, teacher_all_mcqs |-> None,
     teacher_ready_for_review |-> FALSE]

\* the session keys publish_exit_ticket writes, for the ticket (or None)
\* that create_exit_ticket returned
PublishedSession(ticket) ==
    IF ticket # None
    THEN [published_ticket |-> ticket, teacher_mcqs |-> None,
          teacher_all_mcqs |-> None, teacher_ready_for_review |-> FALSE]
    ELSE [published_ticket |-> published_ticket, teacher_mcqs |-> teacher_mcqs,
          teacher_all_mcqs |-> teacher_all_mcqs,
          teacher_ready_for_review |-> teacher_ready_for_review]

PublishExitTicket(outcome) ==
    IF NoQuestions
    THEN /\ run_log' = <<Error("No questions to publish!")>>
         /\ UNCHANGED <<teacher_mcqs, teacher_all_mcqs, teacher_ready_for_review,
                        published_ticket, tickets>>
    ELSE IF outcome = "raises"
    THEN /\ run_log' = <<CreateCall, Error("Error publishing exit ticket")>>
         /\ UNCHANGED <<teacher_mcqs, teacher_all_mcqs, teacher_ready_for_review,
                        published_ticket, tickets>>
    ELSE LET created == CreateExitTicket(Draft, TeacherName,
                            Get(teacher_subject, "Unknown Subject"),
                            Get(teacher_lecture_topics, "No topics specified"))
             ticket == IF outcome = "created" THEN Some(created) ELSE None
             after == PublishedSession(ticket)
         IN /\ tickets' = IF outcome = "created" THEN Append(tickets, created)
                          ELSE tickets
            /\ published_ticket' = after.published_ticket
            /\ teacher_mcqs' = after.teacher_mcqs
            /\ teacher_all_mcqs' = after.teacher_all_mcqs
            /\ teacher_ready_for_review' = after.teacher_ready_for_review
            /\ run_log' = <<CreateCall,
                            IF ticket # None
                            THEN Success("Exit Ticket Published Successfully!")
                            ELSE Error("Failed to publish exit ticket. Please try again.")>>

ClickPublish(outcome) ==
    /\ Interaction
    /\ ReviewRendered
    /\ PublishExitTicket(outcome)
    /\ UNCHANGED <<GOOGLE_API_KEY, teacher_subject, teacher_lecture_topics,
                   teacher_ai_instructions, teacher_num_questions, teacher_edit_mode,
                   requested>>

(***************************************************************************)
(* Generate New Set and Publish end their run without a rerun: the teacher *)
(* still looks at the review page they were pressed on, whatever the       *)
(* router shows next.  A button pressed on that page (Publish, Edit, ...)  *)
(* starts a run in which the router renders the input page, the button is  *)
(* not rendered and its handler does not run.                              *)
(***************************************************************************)
StaleReviewPage ==
    /\ Route = "input"
    /\ \/ Shown(Success("Exit Ticket Published Successfully!"))
       \/ Shown(Success("New questions generated."))

ClickStaleReviewButton ==
    /\ Interaction
    /\ StaleReviewPage
    /\ run_log' = << >>
    /\ UNCHANGED <<GOOGLE_API_KEY, teacher_mcqs, teacher_all_mcqs,
                   teacher_ready_for_review, teacher_subject, teacher_lecture_topics,
                   teacher_ai_instructions, teacher_num_questions, teacher_edit_mode,
                   published_ticket, tickets, requested>>

Next ==
    \/ \E form \in Forms, n \in RequestedCounts, resp \in Responses :
           SubmitForm(form, n, resp)
    \/ \E i \in Rows : ClickEdit(i)
    \/ \E i \in Rows, resp \in Responses : ClickRegenerate(i, resp)
    \/ \E i \in Rows : \E edited \in EditForms(Draft[i + 1]) : ClickSave(i, edited)
    \/ \E i \in Rows : ClickCancel(i)
    \/ \E resp \in Responses : ClickGenerateNewSet(resp)
    \/ \E outcome \in CreateOutcomes : ClickPublish(outcome)
    \/ ClickStaleReviewButton

Spec == Init /\ [][Next]_<<vars, viewvars, genvars>>

(***************************************************************************)
(* generate_mcqs: from the text of the response to the parsed dict.  A     *)
(* text is the sequence of its characters; of a JSON object only the       *)
(* braces that open and close it are characters of their own, what stands  *)
(* between them is one item, the members of the object.  "x" is any        *)
(* character that is no brace.                                             *)
(***************************************************************************)
Char(c) == [char |-> c]
Members(d) == [char |-> "members", members |-> d]

\* str.find(c): the first index of c, counted from 0, or -1
Find(text, c) ==
    IF \E k \in 1..Len(text) : text[k].char = c
    THEN (CHOOSE k \in 1..Len(text) :
              /\ text[k].char = c
              /\ \A j \in 1..(k - 1) : text[j].char # c) - 1
    ELSE 0 - 1

\* variant of RFind: the first index instead of the last
RFindFirst(text, c) == Find(text, c)

\* str.rfind(c): the last index of c, counted from 0, or -1
RFind(text, c) ==
    IF \E k \in 1..Len(text) : text[k].char = c
    THEN (CHOOSE k \in 1..Len(text) :
              /\ text[k].char = c
              /\ \A j \in (k + 1)..Len(text) : text[j].char # c) - 1
    ELSE 0 - 1

\* text[start:end] of Python: a negative index counts from the end, and
\* both indices are clipped to the text
PySlice(text, start, end) ==
    LET clip(i) == IF i < 0 THEN (IF i + Len(text) < 0 THEN 0 ELSE i + Len(text))
                   ELSE IF i > Len(text) THEN Len(text) ELSE i
    IN SubSeq(text, clip(start) + 1, clip(end))

\* `response_text[start_idx:end_idx]`
JsonStr(text) == PySlice(text, Find(text, "{"), RFind(text, "}") + 1)

\* json.loads: the text is one object, or the call raises JSONDecodeError
JsonLoads(json_str) ==
    IF Len(json_str) = 3 /\ json_str[1].char = "{"
          /\ json_str[2].char = "members" /\ json_str[3].char = "}"
    THEN [ok |-> TRUE, val |-> json_str[2].members]
    ELSE IF Len(json_str) = 2 /\ json_str[1].char = "{" /\ json_str[2].char = "}"
    THEN [ok |-> TRUE, val |-> << >>]
    ELSE [ok |-> FALSE, val |-> << >>]

\* what generate_mcqs makes of the text
Decode(text) ==
    IF JsonLoads(JsonStr(text)).ok THEN ParsedDict(JsonLoads(JsonStr(text)).val)
    ELSE Unparsable

Object(d) == <<Char("{"), Members(d), Char("}")>>

\* the texts the external model answers with: an object alone and in prose,
\* two objects, no brace, one brace only, the braces in the wrong order, an
\* empty object, no members between the braces
ResponseTexts ==
    {Object([questions |-> Batch(1, MinQuestions)]),
     <<Char("x")>> \o Object([questions |-> Batch(2, MaxGen)]) \o <<Char("x")>>,
     Object([questions |-> Batch(1, MinQuestions)]) \o <<Char("x")>>
         \o Object([questions |-> Batch(2, 1)]),
     <<Char("x"), Char("x")>>,
     <<Members([questions |-> Batch(1, MinQuestions)]), Char("}")>>,
     <<Char("{"), Members([questions |-> Batch(1, MinQuestions)])>>,
     <<Char("}"), Char("x"), Char("{")>>,
     <<Char("{"), Char("}")>>,
     <<Char("{"), Char("x"), Char("}")>>,
     << >>}

\* a session in which the external model answers with one text
InitGenerator ==
    /\ GOOGLE_API_KEY \in BOOLEAN
    /\ teacher_mcqs = None
    /\ teacher_all_mcqs = None
    /\ teacher_ready_for_review = FALSE
    /\ teacher_subject = None
    /\ teacher_lecture_topics = None
    /\ teacher_ai_instructions = None
    /\ teacher_num_questions = None
    /\ teacher_edit_mode = {}
    /\ published_ticket = None
    /\ tickets = << >>
    /\ run_log = << >>
    /\ requested = None
    /\ nops = 0
    /\ AnalyticsClosed
    /\ response_text \in {Some(text) : text \in ResponseTexts}

NextGenerator ==
    \/ \E form \in Forms, n \in RequestedCounts :
           SubmitForm(form, n, Decode(response_text[1]))
    \/ \E i \in Rows : ClickRegenerate(i, Decode(response_text[1]))
    \/ ClickGenerateNewSet(Decode(response_text[1]))

GeneratorSpec == InitGenerator /\ [][NextGenerator]_<<vars, viewvars, genvars>>

(***************************************************************************)
(* view_published_tickets_page: the Deactivate / Activate button of a      *)
(* ticket.  The page is chosen on the sidebar, whatever the authoring      *)
(* session holds.  update_ticket_status belongs to the repository adapter: *)
(* it writes the status and answers true, it answers false, or it raises.  *)
(***************************************************************************)
StatusCall(ticket_id, status) ==
    [call |-> "update_ticket_status", ticket_id |-> ticket_id, status |-> status]

UpdateOutcomes == {"updated", "refused", "raises"}

UpdateTicketStatus(ticket_id, status) ==
    [k \in 1..Len(tickets) |->
        IF tickets[k].ticket_id = ticket_id
        THEN [tickets[k] EXCEPT !.status = status]
        ELSE tickets[k]]

\* variant of ToggledStatus: every button deactivates
ToggledStatusInactive(ticket) ==
    "inactive"

\* the status the button of the ticket asks for: Deactivate is rendered
\* for `ticket.get('status') == 'active'`, Activate for every other ticket
ToggledStatus(ticket) ==
    IF ticket.status = "active" THEN "inactive" ELSE "active"

ClickToggleStatus(idx, outcome) ==
    /\ Interaction
    /\ idx \in 0..(Len(tickets) - 1)
    /\ LET ticket == tickets[idx + 1]
           status == ToggledStatus(ticket)
           call == StatusCall(ticket.ticket_id, status)
       IN CASE outcome = "updated" ->
                 /\ tickets' = UpdateTicketStatus(ticket.ticket_id, status)
                 /\ run_log' = <<call, IF status = "inactive"
                                       THEN Success("Ticket deactivated!")
                                       ELSE Success("Ticket activated!")>>
            [] outcome = "refused" ->
                 /\ tickets' = tickets
                 /\ run_log' = <<call, IF status = "inactive"
                                       THEN Error("Failed to deactivate ticket.")
                                       ELSE Error("Failed to activate ticket.")>>
            [] outcome = "raises" ->
                 /\ tickets' = tickets
                 /\ run_log' = <<call>>
    /\ UNCHANGED <<GOOGLE_API_KEY, teacher_mcqs, teacher_all_mcqs,
                   teacher_ready_for_review, teacher_subject, teacher_lecture_topics,
                   teacher_ai_instructions, teacher_num_questions, teacher_edit_mode,
                   published_ticket, requested>>

\* a ticket the repository holds from an earlier session
EarlierTicket(ticket_id, status) ==
    [ticket_id       |-> ticket_id,
     teacher_name    |-> TeacherName,
     subject         |-> "Networking",
     lecture_topics  |-> "Subnetting",
     questions       |-> [k \in 1..MinQuestions |->
                             WithSubject(RawQuestion(2, k), "Networking")],
     total_questions |-> MinQuestions,
     status          |-> status]

\* the statuses of that ticket: the two the repository keeps
EarlierStatuses == {"active", "inactive"}

\* a session that starts on a repository with one earlier ticket
InitTickets ==
    /\ GOOGLE_API_KEY = TRUE
    /\ teacher_mcqs = None
    /\ teacher_all_mcqs = None
    /\ teacher_ready_for_review = FALSE
    /\ teacher_subject = None
    /\ teacher_lecture_topics = None
    /\ teacher_ai_instructions = None
    /\ teacher_num_questions = None
    /\ teacher_edit_mode = {}
    /\ published_ticket = None
    /\ \E status \in EarlierStatuses : tickets = <<EarlierTicket(1, status)>>
    /\ run_log = << >>
    /\ requested = None
    /\ nops = 0
    /\ AnalyticsClosed
    /\ response_text = None

NextTickets ==
    \/ Next
    \/ \E idx \in 0..(Len(tickets) - 1), outcome \in UpdateOutcomes :
           ClickToggleStatus(idx, outcome)

TicketsSpec == InitTickets /\ [][NextTickets]_<<vars, viewvars, genvars>>

(***************************************************************************)
(* The analytics page.  A Python dict is the sequence of its items in      *)
(* insertion order, the keys distinct.  A key is a Python int or a Python  *)
(* str; a str is the sequence of its characters.                           *)
(***************************************************************************)
IntKey(n) == [int |-> n]
StrKey(chars) == [str |-> chars]
Item(key, value) == [key |-> key, value |-> value]

\* the outcome of a computation an exception ended
Raises(exc) == [raises |-> exc]
IsRaise(r) == "raises" \in DOMAIN r

DigitChars == <<"0", "1", "2", "3", "4", "5", "6", "7", "8", "9">>
IsDigit(c) == \E d \in 1..10 : DigitChars[d] = c
DigitVal(c) == (CHOOSE d \in 1..10 : DigitChars[d] = c) - 1
IsSpace(c) == c \in {" ", "\t", "\n"}

RECURSIVE LStrip(_)
LStrip(chars) ==
    IF chars # << >> /\ IsSpace(Head(chars)) THEN LStrip(Tail(chars)) ELSE chars

RECURSIVE RStrip(_)
RStrip(chars) ==
    IF chars # << >> /\ IsSpace(chars[Len(chars)])
    THEN RStrip(SubSeq(chars, 1, Len(chars) - 1))
    ELSE chars

RECURSIVE DigitsValue(_)
DigitsValue(chars) ==
    IF chars = << >> THEN 0
    ELSE 10 * DigitsValue(SubSeq(chars, 1, Len(chars) - 1))
         + DigitVal(chars[Len(chars)])

\* int(x) of a Python int or str: a str is stripped of white space and is
\* an optional sign and decimal digits, or the conversion raises ValueError
PyInt(key) ==
    IF "int" \in DOMAIN key THEN [ok |-> TRUE, val |-> key.int]
    ELSE LET s == RStrip(LStrip(key.str))
             signed == s # << >> /\ Head(s) \in {"+", "-"}
             digits == IF signed THEN Tail(s) ELSE s
         IN IF digits # << >> /\ \A k \in 1..Len(digits) : IsDigit(digits[k])
            THEN [ok |-> TRUE,
                  val |-> IF signed /\ Head(s) = "-" THEN 0 - DigitsValue(digits)
                          ELSE DigitsValue(digits)]
            ELSE [ok |-> FALSE, val |-> 0]

RECURSIVE NatStr(_)
NatStr(n) ==
    IF n < 10 THEN <<DigitChars[n + 1]>>
    ELSE NatStr(n \div 10) \o <<DigitChars[(n % 10) + 1]>>

\* str(n) of a Python int
PyStr(n) == IF n < 0 THEN <<"-">> \o NatStr(0 - n) ELSE NatStr(n)

\* dict.get(key, default)
DictGet(dict, key, default) ==
    IF \E k \in 1..Len(dict) : dict[k].key = key
    THEN dict[CHOOSE k \in 1..Len(dict) : dict[k].key = key].value
    ELSE default

\* list[i] of Python: a negative index counts from the end, an index
\* outside the list raises IndexError
PyIndex(list, i) ==
    IF 0 <= i /\ i < Len(list) THEN [ok |-> TRUE, val |-> list[i + 1]]
    ELSE IF i < 0 /\ 0 - i <= Len(list)
         THEN [ok |-> TRUE, val |-> list[Len(list) + i + 1]]
         ELSE [ok |-> FALSE, val |-> << >>]

(***************************************************************************)
(* What the repository holds for the ticket: the responses the student     *)
(* app stored.  The flags and the answers of a response are dicts keyed by *)
(* the question index, as an int or as a str.                              *)
(***************************************************************************)
FlagDicts ==
    [ints      |-> <<Item(IntKey(0), TRUE), Item(IntKey(2), TRUE)>>,
     one       |-> <<Item(IntKey(0), TRUE)>>,
     strs      |-> <<Item(StrKey(<<"0">>), TRUE), Item(StrKey(<<"1">>), FALSE)>>,
     both      |-> <<Item(IntKey(0), TRUE), Item(StrKey(<<"0">>), TRUE)>>,
     outside   |-> <<Item(StrKey(<<"5">>), TRUE), Item(IntKey(0 - 1), TRUE)>>,
     malformed |-> <<Item(StrKey(<<"q", "1">>), TRUE)>>,
     unflagged |-> <<Item(StrKey(<<"q", "1">>), FALSE), Item(StrKey(<<"2">>), TRUE)>>,
     none      |-> << >>]

AnswerDicts ==
    [strs      |-> <<Item(StrKey(<<"0">>), "C"), Item(StrKey(<<"1">>), "B"),
                     Item(StrKey(<<"2">>), "a")>>,
     int       |-> <<Item(IntKey(1), "D")>>,
     large     |-> <<Item(StrKey(<<"5">>), "A"), Item(StrKey(<<" ", "0">>), "C")>>,
     negative  |-> <<Item(IntKey(0 - 1), "A")>>,
     below     |-> <<Item(StrKey(<<"-", "4">>), "A")>>,
     malformed |-> <<Item(StrKey(<<"q", "1">>), "A"), Item(StrKey(<<"0">>), "C")>>,
     none      |-> << >>]

Response(student_name, flags, responses) ==
    [student_name |-> student_name, flags |-> flags, responses |-> responses]

StoredResponses ==
    {Response(Some("Ana"), FlagDicts.ints, AnswerDicts.strs),
     Response(Some("Ben"), FlagDicts.one, AnswerDicts.int),
     Response(Some("Ana"), FlagDicts.strs, AnswerDicts.none),
     Response(Some("Ben"), FlagDicts.both, AnswerDicts.strs),
     Response(Some("Cy"), FlagDicts.outside, AnswerDicts.large),
     Response(None, FlagDicts.one, AnswerDicts.negative),
     Response(Some("Ana"), FlagDicts.malformed, AnswerDicts.none),
     Response(Some("Ben"), FlagDicts.unflagged, AnswerDicts.malformed),
     Response(Some("Cy"), FlagDicts.none, AnswerDicts.below)}

RECURSIVE ListsOf(_, _)
ListsOf(S, n) ==
    IF n = 0 THEN {<< >>}
    ELSE LET shorter == ListsOf(S, n - 1)
         IN shorter \cup {Append(l, x) : l \in shorter, x \in S}

ResponseLists == ListsOf(StoredResponses, MaxResponses)

\* the ticket get_exit_ticket answers with: none, or a published ticket
TicketsToView ==
    {None} \cup {Some([ticket_id |-> 1, questions |-> Batch(1, len)]) :
                    len \in 0..MaxSnapshot}

(***************************************************************************)
(* calculate_flag_statistics                                               *)
(***************************************************************************)
\* variant of FlaggedQuestions: a question counts from its second flag on
FlaggedQuestionsTwice(details) ==
    Cardinality({i \in DOMAIN details : details[i].flag_count > 1})

\* `len([q for q in ...values() if q['flag_count'] > 0])`
FlaggedQuestions(details) ==
    Cardinality({i \in DOMAIN details : details[i].flag_count > 0})

\* variant of InDetails: only the upper end of the range is tested
InDetailsBelowLen(q_idx, details) == q_idx < Cardinality(DOMAIN details)

\* `q_idx in flag_stats['question_flag_details']`
InDetails(q_idx, details) == q_idx \in DOMAIN details

\* one flag of student_name counted for question q_idx
CountFlag(stats, q_idx, student_name) ==
    [stats EXCEPT
        !.question_flag_details =
            [i \in DOMAIN @ |->
                IF i = q_idx
                THEN [@[i] EXCEPT !.flag_count = @ + 1,
                                  !.flagged_by = Append(@, student_name)]
                ELSE @[i]],
        !.total_flags = @ + 1]

\* the loop over flags.items() of one response
RECURSIVE CountFlags(_, _, _)
CountFlags(items, student_name, stats) ==
    IF items = << >> \/ IsRaise(stats) THEN stats
    ELSE LET is_flagged == Head(items).value
             q_idx == PyInt(Head(items).key)
             counted ==
                 IF ~is_flagged THEN stats
                 ELSE IF ~q_idx.ok THEN Raises("ValueError")
                 ELSE IF InDetails(q_idx.val, stats.question_flag_details)
                      THEN CountFlag(stats, q_idx.val, student_name)
                      ELSE stats
         IN CountFlags(Tail(items), student_name, counted)

\* the loop over the responses
RECURSIVE CountResponses(_, _)
CountResponses(responses, stats) ==
    IF responses = << >> \/ IsRaise(stats) THEN stats
    ELSE CountResponses(Tail(responses),
             CountFlags(Head(responses).flags,
                        Get(Head(responses).student_name, "Unknown"), stats))

CalculateFlagStatistics(responses, questions) ==
    LET details == [i \in 0..(Len(questions) - 1) |->
                       [question_text |-> questions[i + 1].question,
                        flag_count    |-> 0,
                        flagged_by    |-> << >>]]
        counted == CountResponses(responses,
                       [total_flags |-> 0, flagged_questions |-> 0,
                        question_flag_details |-> details])
    IN IF IsRaise(counted) THEN counted
       ELSE [counted EXCEPT
                !.flagged_questions = FlaggedQuestions(counted.question_flag_details)]

(***************************************************************************)
(* view_ticket_analytics: the expander of one response.                    *)
(***************************************************************************)
\* `len([f for f in student_flags.values() if f])`
HeaderFlagCount(student_flags) ==
    Cardinality({k \in 1..Len(student_flags) : student_flags[k].value})

\* the answer line of question q_idx
AnswerLine(q_idx, question, student_answer, student_flags) ==
    [q_idx          |-> q_idx,
     question       |-> question.question,
     student_answer |-> student_answer,
     is_correct     |-> student_answer = question.correct_answer,
     is_flagged     |-> DictGet(student_flags, StrKey(PyStr(q_idx)), FALSE)]

\* the loop over responses_dict.items(): the answer lines shown, or the
\* exception that ended it
RECURSIVE AnswerLines(_, _, _, _)
AnswerLines(items, questions, student_flags, lines) ==
    IF items = << >> THEN [lines |-> lines]
    ELSE LET q_idx == PyInt(Head(items).key)
             question == PyIndex(questions, q_idx.val)
         IN IF ~q_idx.ok THEN Raises("ValueError")
            ELSE IF q_idx.val < Len(questions)
            THEN IF ~question.ok THEN Raises("IndexError")
                 ELSE AnswerLines(Tail(items), questions, student_flags,
                          Append(lines, AnswerLine(q_idx.val, question.val,
                                            Head(items).value, student_flags)))
            ELSE AnswerLines(Tail(items), questions, student_flags, lines)

ResponseView(response, questions) ==
    LET shown == AnswerLines(response.responses, questions, response.flags, << >>)
    IN IF IsRaise(shown) THEN shown
       ELSE [student_name |-> Get(response.student_name, "Unknown"),
             flag_count   |-> HeaderFlagCount(response.flags),
             answers      |-> shown.lines]

\* the loop over the responses: the expanders rendered, and the exception
\* that ended the run if one did
RECURSIVE ResponseViews(_, _, _)
ResponseViews(responses, questions, views) ==
    IF responses = << >> THEN [views |-> views, raised |-> None]
    ELSE LET view == ResponseView(Head(responses), questions)
         IN IF IsRaise(view) THEN [views |-> views, raised |-> Some(view.raises)]
            ELSE ResponseViews(Tail(responses), questions, Append(views, view))

(***************************************************************************)
(* view_ticket_analytics                                                   *)
(***************************************************************************)
ViewTicketAnalytics ==
    /\ flag_stats = None /\ response_views = << >> /\ view_raised = None
    /\ UNCHANGED <<ticket_data, analytics>>
    /\ UNCHANGED <<vars, genvars>>
    /\ IF ticket_data = None \/ analytics.total_responses = 0
       THEN UNCHANGED <<flag_stats, response_views, view_raised>>
       ELSE LET questions == ticket_data[1].questions
                stats == CalculateFlagStatistics(analytics.responses, questions)
                rendered == ResponseViews(analytics.responses, questions, << >>)
            IN IF IsRaise(stats)
               THEN /\ view_raised' = Some(stats.raises)
                    /\ UNCHANGED <<flag_stats, response_views>>
               ELSE /\ flag_stats' = Some(stats)
                    /\ response_views' = rendered.views
                    /\ view_raised' = rendered.raised

\* the page is opened on a ticket and on the responses stored for it
InitAnalytics ==
    /\ GOOGLE_API_KEY = TRUE
    /\ teacher_mcqs = None
    /\ teacher_all_mcqs = None
    /\ teacher_ready_for_review = FALSE
    /\ teacher_subject = None
    /\ teacher_lecture_topics = None
    /\ teacher_ai_instructions = None
    /\ teacher_num_questions = None
    /\ teacher_edit_mode = {}
    /\ published_ticket = None
    /\ tickets = << >>
    /\ run_log = << >>
    /\ requested = None
    /\ nops = 0
    /\ ticket_data \in TicketsToView
    /\ \E responses \in ResponseLists :
           analytics = [total_responses |-> Len(responses), responses |-> responses]
    /\ flag_stats = None
    /\ response_views = << >>
    /\ view_raised = None
    /\ response_text = None

NextAnalytics == ViewTicketAnalytics

AnalyticsSpec == InitAnalytics /\ [][NextAnalytics]_<<vars, viewvars, genvars>>

(***************************************************************************)
(* Properties of the authoring workflow.  A step is told by what its run   *)
(* logged: the generator call with its arguments, the questions the        *)
(* adapter handed to save_question (the list it returns, in order), and    *)
(* the notices.                                                            *)
(***************************************************************************)
IsSave(e) == IsCall(e, "save_question")
IsGenerate(e) == IsCall(e, "generate_content")

\* the question list generate_mcqs returned in the run of log: the
\* questions it handed to save_question, unless the run ended in its
\* exception handler
ReturnedIn(log) ==
    LET saves == SelectSeq(log, IsSave)
    IN IF ShownIn(log, Error("Error generating MCQs")) THEN << >>
       ELSE [k \in 1..Len(saves) |-> saves[k].question]

\* the counts the generator was asked for in the run of log
AskedIn(log) == {log[k].num_questions : k \in CallsIn(log, "generate_content")}

\* the run of log is a form submission that reached the generator
SubmitRun(log) == Route = "input" /\ AskedIn(log) # {}

\* C1: a form submission that succeeds (no error notice) moves the router
\* from the input page to the review page, and the draft is exactly the
\* question list the generator adapter returned, which is at least as long
\* as the requested count.
C1_RequestDraftSuccess ==
    [][(SubmitRun(run_log') /\ ~HasError(run_log')) =>
          /\ Route' = "review"
          /\ teacher_all_mcqs' = Some(ReturnedIn(run_log'))
          /\ \A n \in AskedIn(run_log') : Len(teacher_all_mcqs'[1]) >= n]_vars

\* C1 witness: right after a successful request the draft holds more
\* questions than were asked for
C1_Witness ==
    /\ ReviewRendered
    /\ requested # None
    /\ ~HasError(run_log)
    /\ AskedIn(run_log) = {requested[1]}
    /\ Len(Draft) > requested[1]

\* C2: a form submission for which the generator fails, answers unparsably
\* or with fewer than the requested questions shows an error, and a
\* submission that shows an error leaves the session as it was: draft,
\* stored subject, topics and instructions, review flag; the router still
\* shows the input page.
C2_RequestDraftFailure ==
    [][/\ (/\ SubmitRun(run_log')
           /\ \E n \in AskedIn(run_log') : Len(ReturnedIn(run_log')) < n)
          => HasError(run_log')
       /\ (Route = "input" /\ HasError(run_log')) =>
              /\ UNCHANGED <<teacher_mcqs, teacher_all_mcqs, teacher_subject,
                             teacher_lecture_topics, teacher_ai_instructions,
                             teacher_ready_for_review>>
              /\ Route' = "input"]_vars

\* C2 witness: a request failed for too few questions while an earlier draft
\* was still stored
C2_Witness ==
    /\ Route = "input"
    /\ Shown(Error("Only n questions were generated."))
    /\ Len(ReturnedIn(run_log)) >= MinQuestions
    /\ teacher_all_mcqs # None
    /\ teacher_subject # None

\* C3: saving the edit form of a row i leaves the draft's length and every
\* other row as they were, and the router on the review page.
C3_EditChangesOnlyRow ==
    [][ShownIn(run_log', Success("Question updated.")) =>
          /\ Route = "review"
          /\ Route' = "review"
          /\ Len(Draft') = Len(Draft)
          /\ \E i \in Rows \cap teacher_edit_mode :
                /\ teacher_edit_mode' = teacher_edit_mode \ {i}
                /\ \A j \in Rows \ {i} : Draft'[j + 1] = Draft[j + 1]]_vars

\* C3 witness: a retyped question was saved into a draft of several rows
C3_Witness ==
    /\ ReviewRendered
    /\ Shown(Success("Question updated."))
    /\ Len(Draft) >= MinQuestions
    /\ \E i \in Rows : Draft[i + 1].question = EditedText

\* the run of log is a press of a Regenerate button
RegenerateRun(log) ==
    \/ ShownIn(log, Success("Question regenerated successfully!"))
    \/ ShownIn(log, Error("Failed to regenerate question. Please try again."))

\* C4: regenerating a row keeps the draft's length and the router on the
\* review page; if the generator returned at least one question, one row i
\* becomes the first of them and every other row is unchanged, otherwise
\* the draft is unchanged and an error is shown.
C4_RegenerateChangesOnlyRow ==
    [][RegenerateRun(run_log') =>
          /\ Route = "review"
          /\ Route' = "review"
          /\ Len(Draft') = Len(Draft)
          /\ IF Len(ReturnedIn(run_log')) > 0
             THEN \E i \in Rows \ teacher_edit_mode :
                     /\ Draft'[i + 1] = ReturnedIn(run_log')[1]
                     /\ \A j \in Rows \ {i} : Draft'[j + 1] = Draft[j + 1]
             ELSE /\ Draft' = Draft
                  /\ HasError(run_log')]_vars

\* C4 witness: a row was regenerated from an answer of several questions
C4_Witness ==
    /\ ReviewRendered
    /\ Shown(Success("Question regenerated successfully!"))
    /\ Len(ReturnedIn(run_log)) > 1

\* C5: a step that creates a ticket starts from a non-empty draft and ends
\* on the input page with no draft; a step taken without a draft creates no
\* ticket and does not call create_exit_ticket.
C5_PublishOnce ==
    [][/\ Len(tickets') > Len(tickets) =>
             /\ ~NoQuestions
             /\ Route' = "input"
             /\ teacher_all_mcqs' = None
             /\ teacher_mcqs' = None
       /\ teacher_all_mcqs = None =>
             /\ tickets' = tickets
             /\ CallsIn(run_log', "create_exit_ticket") = {}]_vars

\* C5 witness: after a publish, the Publish button of the stale review page
\* was pressed again and the press was dropped
C5_Witness ==
    /\ Len(tickets) = 1
    /\ published_ticket # None
    /\ teacher_all_mcqs = None
    /\ run_log = << >>

\* C6 (as claimed): after a successful publish no row is in edit mode.
C6_EditFlagsClearedByPublish ==
    Shown(Success("Exit Ticket Published Successfully!")) => teacher_edit_mode = {}

\* the run of log is a publish for which the repository gave no ticket
PublishFailedRun(log) ==
    /\ CallsIn(log, "create_exit_ticket") # {}
    /\ ~ShownIn(log, Success("Exit Ticket Published Successfully!"))

\* C7: a publish for which create_exit_ticket returns None or raises shows
\* an error and leaves the draft, the stored subject, topics and
\* instructions, the review flag, the edit flags, the session's last ticket
\* and the repository as they were; the router still shows the review page.
C7_PublishFailureKeepsAll ==
    [][PublishFailedRun(run_log') =>
          /\ HasError(run_log')
          /\ UNCHANGED <<teacher_mcqs, teacher_all_mcqs, teacher_subject,
                         teacher_lecture_topics, teacher_ai_instructions,
                         teacher_ready_for_review, teacher_edit_mode,
                         published_ticket, tickets>>
          /\ Route' = "review"]_vars

\* C7 witness: create_exit_ticket returned None and the draft is still there
C7_Witness ==
    /\ Shown(Error("Failed to publish exit ticket. Please try again."))
    /\ ReviewRendered
    /\ tickets = << >>

\* the run of log is a press of Generate New Set
NewSetRun(log) ==
    \/ ShownIn(log, Success("New questions generated."))
    \/ ShownIn(log, Error("Failed to generate a new set. Please try again."))

\* C8 (as claimed): after a successful Generate New Set the draft is the
\* returned list and the router shows the review page.
C8_NewSetStaysInReview ==
    [][ShownIn(run_log', Success("New questions generated.")) =>
          /\ teacher_all_mcqs' = Some(ReturnedIn(run_log'))
          /\ Route' = "review"]_vars

\* C9 (as claimed): Generate New Set asks the generator for the count of
\* the request that created the draft, with the stored subject, topics and
\* instructions.
C9_NewSetAsksRequestedCount ==
    [][NewSetRun(run_log') =>
          \A k \in CallsIn(run_log', "generate_content") :
             /\ run_log'[k].num_questions = requested[1]
             /\ run_log'[k].subject = teacher_subject[1]
             /\ run_log'[k].lecture_topics = teacher_lecture_topics[1]
             /\ run_log'[k].ai_instructions = teacher_ai_instructions[1]]_vars

\* C10 (as claimed): a run in which the generator returned fewer questions
\* than it was asked for shows an error and changes neither the draft nor
\* the page the router shows.
C10_FewerThanAskedAborts ==
    [][(\E n \in AskedIn(run_log') : Len(ReturnedIn(run_log')) < n) =>
          /\ HasError(run_log')
          /\ UNCHANGED <<teacher_mcqs, teacher_all_mcqs>>
          /\ Route' = Route]_vars

(***************************************************************************)
(* Properties of the analytics page.  The statistics are those of          *)
(* calculate_flag_statistics on the responses and the question snapshot    *)
(* the page was opened on.                                                 *)
(***************************************************************************)
\* `ticket_data.get('questions', [])`
ViewedQuestions == IF ticket_data = None THEN << >> ELSE ticket_data[1].questions

StatsOfView == CalculateFlagStatistics(analytics.responses, ViewedQuestions)

RECURSIVE SumOver(_, _)
SumOver(f, S) ==
    IF S = {} THEN 0
    ELSE LET i == CHOOSE j \in S : TRUE IN f[i] + SumOver(f, S \ {i})

\* response flags question i: a truthy value under the int i or under str(i)
FlagsQuestion(response, i) ==
    \E k \in 1..Len(response.flags) :
        /\ response.flags[k].value
        /\ response.flags[k].key \in {IntKey(i), StrKey(PyStr(i))}

\* the names of the responses that flag question i, in the order of the list
RECURSIVE NamesFlagging(_, _)
NamesFlagging(responses, i) ==
    IF responses = << >> THEN << >>
    ELSE (IF FlagsQuestion(Head(responses), i)
          THEN <<Get(Head(responses).student_name, "Unknown")>> ELSE << >>)
         \o NamesFlagging(Tail(responses), i)

\* C11: whenever the statistics are computed, total_flags is the sum of the
\* flag counts of all questions, and flagged_questions is the number of
\* questions whose flag count is positive.
C11_TotalsAreSums ==
    LET stats == StatsOfView
        details == stats.question_flag_details
    IN ~IsRaise(stats) =>
          /\ DOMAIN details = 0..(Len(ViewedQuestions) - 1)
          /\ stats.total_flags =
                 SumOver([i \in DOMAIN details |-> details[i].flag_count],
                         DOMAIN details)
          /\ stats.flagged_questions =
                 Cardinality({i \in DOMAIN details : details[i].flag_count > 0})

\* the page shows the statistics of the scenario of two responses, the first
\* flagging questions 0 and 2 and the second flagging question 0
C11_Witness ==
    /\ flag_stats # None
    /\ Len(ViewedQuestions) = 3
    /\ flag_stats[1].total_flags = 3
    /\ flag_stats[1].flagged_questions = 2
    /\ flag_stats[1].question_flag_details[0].flag_count = 2
    /\ flag_stats[1].question_flag_details[1].flag_count = 0
    /\ flag_stats[1].question_flag_details[2].flag_count = 1

\* C12: whenever the statistics are computed, the flag count of every
\* question is the number of responses that flag it (under the int key or
\* the str key), a response counting once.
C12_FlagCountIsResponseCount ==
    LET stats == StatsOfView
    IN ~IsRaise(stats) =>
          \A i \in DOMAIN stats.question_flag_details :
              stats.question_flag_details[i].flag_count =
                  Cardinality({r \in 1..Len(analytics.responses) :
                                  FlagsQuestion(analytics.responses[r], i)})

\* C13: whenever the statistics are computed, flagged_by of every question
\* is the list of the names of the responses that flag it, in the order of
\* the response list and with repeated names kept, and it is as long as the
\* flag count.
C13_FlaggedByIsResponseNames ==
    LET stats == StatsOfView
    IN ~IsRaise(stats) =>
          \A i \in DOMAIN stats.question_flag_details :
              /\ stats.question_flag_details[i].flagged_by =
                     NamesFlagging(analytics.responses, i)
              /\ Len(stats.question_flag_details[i].flagged_by) =
                     stats.question_flag_details[i].flag_count

\* the key is an index outside the question list
OutOfRange(key, questions) ==
    /\ PyInt(key).ok
    /\ PyInt(key).val < 0 \/ PyInt(key).val >= Len(questions)

InRangeItem(item) == ~OutOfRange(item.key, ViewedQuestions)

\* the responses without the flags whose index is outside the question list
WithoutOutOfRangeFlags(responses) ==
    [r \in 1..Len(responses) |->
        [responses[r] EXCEPT !.flags = SelectSeq(@, InRangeItem)]]

\* C14: the statistics are those of the responses without the flags whose
\* index is outside the question list (too large or negative): such a flag
\* raises nothing and adds to no count and to no list.
C14_OutOfRangeFlagsIgnored ==
    LET stats == StatsOfView
        pruned == CalculateFlagStatistics(WithoutOutOfRangeFlags(analytics.responses),
                                          ViewedQuestions)
    IN /\ IsRaise(stats) = IsRaise(pruned)
       /\ ~IsRaise(stats) => stats = pruned

\* the page shows statistics with counted flags for responses of which one
\* flags a too large and a negative index
C14_Witness ==
    /\ flag_stats # None
    /\ flag_stats[1].total_flags > 0
    /\ \E r \in 1..Len(analytics.responses) :
          \E k \in 1..Len(analytics.responses[r].flags) :
              /\ analytics.responses[r].flags[k].value
              /\ OutOfRange(analytics.responses[r].flags[k].key, ViewedQuestions)
              /\ PyInt(analytics.responses[r].flags[k].key).val < 0

\* C15: a flag key or an answer key that is not an integer never raises, in
\* the statistics or in the rendering of the responses.
C15_MalformedKeysNeverRaise ==
    /\ ~IsRaise(StatsOfView)
    /\ view_raised # Some("ValueError")

\* the answer lines the detail view is to show for a response: one for each
\* answered index inside the snapshot, with its correctness
RECURSIVE InRangeAnswers(_, _)
InRangeAnswers(items, questions) ==
    IF items = << >> THEN << >>
    ELSE LET q == PyInt(Head(items).key)
         IN (IF q.ok /\ 0 <= q.val /\ q.val < Len(questions)
             THEN <<[q_idx      |-> q.val,
                     question   |-> questions[q.val + 1].question,
                     is_correct |-> Head(items).value =
                                        questions[q.val + 1].correct_answer]>>
             ELSE << >>)
            \o InRangeAnswers(Tail(items), questions)

WellKeyed(response) ==
    \A k \in 1..Len(response.responses) : PyInt(response.responses[k].key).ok

\* C16: the detail view of a response whose answer keys are all integers
\* raises nothing, shows no line for an answered index outside the snapshot
\* (too large or negative), and shows for every index inside it a line
\* whose correctness is the equality of the selected option key and the
\* correct answer of that snapshot question.
C16_DetailSkipsOutOfRange ==
    \A r \in 1..Len(analytics.responses) :
        LET response == analytics.responses[r]
            view == ResponseView(response, ViewedQuestions)
        IN WellKeyed(response) =>
              /\ ~IsRaise(view)
              /\ [k \in 1..Len(view.answers) |->
                     [q_idx      |-> view.answers[k].q_idx,
                      question   |-> view.answers[k].question,
                      is_correct |-> view.answers[k].is_correct]]
                   = InRangeAnswers(response.responses, ViewedQuestions)

(***************************************************************************)
(* Properties of the authoring workflow and the repository.                *)
(***************************************************************************)
\* the save_question calls of the run of log that wrote a question
WritesIn(log) ==
    {k \in CallsIn(log, "save_question") : "failed" \notin DOMAIN log[k]}

\* the run of log called create_exit_ticket: it is a publish
PublishRun(log) == CallsIn(log, "create_exit_ticket") # {}

SaveFailingResponses == {resp \in Responses : FailingSave(resp) > 0}

\* save_question failed in the run of log
SaveFailedIn(log) ==
    \E k \in CallsIn(log, "save_question") : "failed" \in DOMAIN log[k]

\* C18: when save_question fails for one question of a parsed batch that is
\* long enough, the form submission, the regeneration of a row and the
\* generation of a new set still succeed with the questions of the batch.
C18_SaveFailureDoesNotBlock ==
    [][SaveFailedIn(run_log') =>
       \A resp \in SaveFailingResponses :
          LET returned == resp.mcqs.questions
          IN /\ \A form \in Forms, n \in RequestedCounts :
                   (n <= Len(returned) /\ Strip(form.lecture_topics) # ""
                      /\ SubmitForm(form, n, resp))
                   => /\ ~HasError(run_log')
                      /\ teacher_all_mcqs' # None
                      /\ Len(teacher_all_mcqs'[1]) = Len(returned)
             /\ \A i \in Rows :
                   ClickRegenerate(i, resp)
                   => /\ ~HasError(run_log')
                      /\ teacher_all_mcqs'[1][i + 1].question = returned[1].question
             /\ ClickGenerateNewSet(resp)
                   => /\ ~HasError(run_log')
                      /\ teacher_all_mcqs' # None
                      /\ Len(teacher_all_mcqs'[1]) = Len(returned)]_vars

\* the topics are empty or white space only
Blank(s) == s \in {"", " ", "  "}

\* C19: a form submission with blank topics calls neither the generator nor
\* the repository and changes no session state.
C19_BlankTopicsRejected ==
    [][\A form \in Forms, n \in RequestedCounts, resp \in Responses :
          (Blank(form.lecture_topics) /\ SubmitForm(form, n, resp))
          => /\ \A k \in 1..Len(run_log') : "call" \notin DOMAIN run_log'[k]
             /\ HasError(run_log')
             /\ UNCHANGED <<teacher_mcqs, teacher_all_mcqs, teacher_ready_for_review,
                            teacher_subject, teacher_lecture_topics,
                            teacher_ai_instructions, teacher_num_questions,
                            teacher_edit_mode, published_ticket, tickets>>]_vars

\* blank topics were rejected in a session that holds stored parameters and
\* a published ticket
C19_Witness ==
    /\ run_log = <<Error("Please enter lecture topics to generate MCQs.")>>
    /\ teacher_subject # None
    /\ tickets # << >>

RECURSIVE HeaderFlagTotal(_)
HeaderFlagTotal(responses) ==
    IF responses = << >> THEN 0
    ELSE HeaderFlagCount(Head(responses).flags) + HeaderFlagTotal(Tail(responses))

\* C27: whenever the statistics are computed, the flag counts shown in the
\* headers of the responses add up to total_flags.
C27_HeaderCountsAddUpToTotal ==
    ~IsRaise(StatsOfView) =>
        HeaderFlagTotal(analytics.responses) = StatsOfView.total_flags

\* response contributes to the flag count of question q: the statistics of
\* the response alone count a flag for q
Contributes(response, q) ==
    LET alone == CalculateFlagStatistics(<<response>>, ViewedQuestions)
    IN /\ ~IsRaise(alone)
       /\ q \in DOMAIN alone.question_flag_details
       /\ alone.question_flag_details[q].flag_count > 0

\* C28: for every response the detail view renders and every answer line of
\* a question inside the snapshot, the line carries the flag marker exactly
\* when the response contributes to the flag count of that question.
C28_FlagMarkerMatchesCount ==
    \A r \in 1..Len(analytics.responses) :
        LET response == analytics.responses[r]
            view == ResponseView(response, ViewedQuestions)
        IN (~IsRaise(view) /\ ~IsRaise(CalculateFlagStatistics(<<response>>,
                                                               ViewedQuestions)))
           => \A k \in 1..Len(view.answers) :
                 view.answers[k].q_idx >= 0 =>
                     (view.answers[k].is_flagged
                          <=> Contributes(response, view.answers[k].q_idx))

(***************************************************************************)
(* Invariants of the draft.                                                *)
(***************************************************************************)
\* C22: every question of the draft has the four option keys, and its
\* correct answer is one of them.
C22_CorrectAnswerIsOptionKey ==
    teacher_all_mcqs # None =>
        \A k \in 1..Len(teacher_all_mcqs[1]) :
            /\ DOMAIN teacher_all_mcqs[1][k].options = {"A", "B", "C", "D"}
            /\ teacher_all_mcqs[1][k].correct_answer
                   \in DOMAIN teacher_all_mcqs[1][k].options

\* an edit was saved that retyped the texts of a question
C22_Witness ==
    /\ Shown(Success("Question updated."))
    /\ teacher_all_mcqs # None
    /\ \E k \in 1..Len(teacher_all_mcqs[1]) :
          teacher_all_mcqs[1][k].question = EditedText

\* C23: a run that changes the edit mode of a row without saving (the Edit
\* button, the Cancel button) changes the mode of that one row and leaves
\* the draft as it was; the draft takes the values of the edit form only in
\* a run that shows the save notice.
C23_OnlySaveCommits ==
    [][(teacher_edit_mode' # teacher_edit_mode
          /\ ~ShownIn(run_log', Success("Question updated.")))
       => /\ UNCHANGED <<teacher_mcqs, teacher_all_mcqs>>
          /\ \E i \in Rows :
                \/ i \notin teacher_edit_mode
                     /\ teacher_edit_mode' = teacher_edit_mode \cup {i}
                \/ i \in teacher_edit_mode
                     /\ teacher_edit_mode' = teacher_edit_mode \ {i}]_vars

\* a row was put into edit mode and the edit was cancelled: the review page
\* shows the draft as the generator returned it, every row in viewing mode
C23_Witness ==
    /\ Route = "review"
    /\ nops = MaxOps
    /\ run_log = << >>
    /\ teacher_edit_mode = {}
    /\ teacher_all_mcqs # None
    /\ teacher_all_mcqs[1] = [k \in 1..Len(teacher_all_mcqs[1]) |->
                                 WithSubject(RawQuestion(1, k), teacher_subject[1])]

\* C25: whenever the router shows the review page, the draft holds at least
\* MinQuestions questions and at least as many as the last successful form
\* submission asked for.
C25_ReviewedDraftLongEnough ==
    Route = "review" =>
        /\ teacher_all_mcqs # None
        /\ requested # None
        /\ Len(teacher_all_mcqs[1]) >= MinQuestions
        /\ Len(teacher_all_mcqs[1]) >= requested[1]

\* the review page shows a draft after a row of it was regenerated
C25_Witness ==
    /\ Route = "review"
    /\ Shown(Success("Question regenerated successfully!"))
    /\ requested = Some(MinQuestions)
    /\ Len(teacher_all_mcqs[1]) > MinQuestions

\* C26: every question of the draft carries the subject the session stores.
C26_DraftQuestionsCarrySubject ==
    (teacher_all_mcqs # None /\ teacher_subject # None) =>
        \A k \in 1..Len(teacher_all_mcqs[1]) :
            /\ "subject" \in DOMAIN teacher_all_mcqs[1][k]
            /\ teacher_all_mcqs[1][k].subject = teacher_subject[1]

(***************************************************************************)
(* The generator adapter and the text of the response.                     *)
(***************************************************************************)
\* the part of the text from its first "{" to its last "}", both included;
\* empty when a brace is missing or the last "}" stands before the first "{"
BraceSpan(text) ==
    LET opens == {k \in 1..Len(text) : text[k].char = "{"}
        closes == {k \in 1..Len(text) : text[k].char = "}"}
        first == CHOOSE k \in opens : \A j \in opens : k <= j
        last == CHOOSE k \in closes : \A j \in closes : j <= k
    IN IF opens = {} \/ closes = {} THEN << >>
       ELSE IF last < first THEN << >>
       ELSE [k \in 1..(last - first + 1) |-> text[first + k - 1]]

\* C24: in a run that called the external model, the adapter parses the
\* part of the text from the first "{" to the last "}".  If that part is an
\* object with questions, those questions are what the adapter returns;
\* if it does not parse, the run shows the parse error and the raw
\* response, and it leaves the session state as it was.
C24_ParsesBraceSpan ==
    [][CallsIn(run_log', "generate_content") # {} =>
          LET parsed == JsonLoads(BraceSpan(response_text[1]))
          IN IF parsed.ok
             THEN /\ ~ShownIn(run_log', Error("Error parsing AI response"))
                  /\ "questions" \in DOMAIN parsed.val =>
                        Len(ReturnedIn(run_log')) = Len(parsed.val.questions)
                  /\ "questions" \in DOMAIN parsed.val =>
                        \A k \in 1..Len(parsed.val.questions) :
                            ReturnedIn(run_log')[k].question =
                                parsed.val.questions[k].question
             ELSE /\ ShownIn(run_log', Error("Error parsing AI response"))
                  /\ ShownIn(run_log', RawText)
                  /\ UNCHANGED <<teacher_mcqs, teacher_all_mcqs,
                                 teacher_ready_for_review, teacher_subject,
                                 teacher_lecture_topics, teacher_ai_instructions,
                                 teacher_num_questions, teacher_edit_mode,
                                 published_ticket, tickets>>]_vars

\* the response held two objects with prose between them: the run showed
\* the raw response, and the session has no draft
C24_Witness ==
    /\ response_text # None
    /\ Len(response_text[1]) > 4
    /\ ~JsonLoads(BraceSpan(response_text[1])).ok
    /\ Shown(RawText)
    /\ teacher_all_mcqs = None

(***************************************************************************)
(* The status buttons of the published tickets.                            *)
(***************************************************************************)
\* C21: a run that calls update_ticket_status, whatever the call answers,
\* leaves the draft, the stored parameters, the review flag and the edit
\* modes as they were; it asks for "inactive" when the ticket is "active"
\* and for "active" otherwise; and it changes nothing of the repository
\* but the status of that ticket.
C21_StatusToggleLeavesDraft ==
    [][\A c \in CallsIn(run_log', "update_ticket_status") :
          /\ UNCHANGED <<teacher_mcqs, teacher_all_mcqs, teacher_ready_for_review,
                         teacher_subject, teacher_lecture_topics,
                         teacher_ai_instructions, teacher_num_questions,
                         teacher_edit_mode, published_ticket>>
          /\ Len(tickets') = Len(tickets)
          /\ \A k \in 1..Len(tickets) :
                IF tickets[k].ticket_id = run_log'[c].ticket_id
                THEN /\ run_log'[c].status =
                           (IF tickets[k].status = "active" THEN "inactive"
                            ELSE "active")
                     /\ tickets'[k] \in
                           {tickets[k],
                            [tickets[k] EXCEPT !.status = run_log'[c].status]}
                ELSE tickets'[k] = tickets[k]]_vars

\* a ticket was activated while a draft is under review with a row in edit
\* mode
C21_Witness ==
    /\ Shown(Success("Ticket activated!"))
    /\ tickets[1].status = "active"
    /\ Route = "review"
    /\ teacher_edit_mode # {}
====
